---- MODULE Spec2Model ----
(***************************************************************************)
(* Model of ota_update_task (src/src/ota_update_task-newish.c): the OTA    *)
(* update task, its descriptor comparator _versions_match, and the two     *)
(* helpers _http_cleanup and _delete_task.                                 *)
(*                                                                         *)
(* The ESP-IDF calls the task makes (esp_https_ota_*, esp_ota_*,           *)
(* vTaskDelete, esp_restart, abort) are the environment: each call is      *)
(* recorded in `trace` together with the value it returned, and the value  *)
(* is chosen from the results the call can produce.                        *)
(***************************************************************************)
EXTENDS Integers, Sequences, FiniteSets, TLC

(* ---- bounds ---------------------------------------------------------- *)
\* capacity of project_name[] and version[] (32 on the target)
NameCap == 3
\* capacity of date[] and time[] (16 on the target)
DateCap == 2
\* largest byte value used in descriptor fields; 0 is the text terminator
MaxByte == 1
\* most times esp_https_ota_perform reports IN_PROGRESS in one run
MaxSteps == 3

(* ---- firmware descriptors (esp_app_desc_t) ---------------------------- *)
Bytes == 0..MaxByte
Fields == {"project_name", "version", "date", "time"}

\* sizeof(desc->field)
Sizeof(f) == IF f \in {"project_name", "version"} THEN NameCap ELSE DateCap

FieldVals(n) == [1..n -> Bytes]

\* strncmp(s1, s2, n) continued at index i: the first differing byte decides,
\* a terminator common to both ends the comparison, and so does i > n
RECURSIVE strncmp_from(_, _, _, _)
strncmp_from(s1, s2, n, i) ==
    IF i > n THEN 0
    ELSE IF s1[i] # s2[i] THEN s1[i] - s2[i]
    ELSE IF s1[i] = 0 THEN 0
    ELSE strncmp_from(s1, s2, n, i + 1)

strncmp(s1, s2, n) == strncmp_from(s1, s2, n, 1)

\* the comparator with the time field left out
_versions_match_NoTime(d1, d2) ==
    /\ strncmp(d1.project_name, d2.project_name, Sizeof("project_name")) = 0
    /\ strncmp(d1.version, d2.version, Sizeof("version")) = 0
    /\ strncmp(d1.date, d2.date, Sizeof("date")) = 0

\* the comparator with the date of one descriptor held against the time of
\* the other
_versions_match_DateTime(d1, d2) ==
    /\ strncmp(d1.project_name, d2.project_name, Sizeof("project_name")) = 0
    /\ strncmp(d1.version, d2.version, Sizeof("version")) = 0
    /\ strncmp(d1.date, d2.time, Sizeof("date")) = 0
    /\ strncmp(d1.time, d2.time, Sizeof("time")) = 0

_versions_match(d1, d2) ==
    /\ strncmp(d1.project_name, d2.project_name, Sizeof("project_name")) = 0
    /\ strncmp(d1.version, d2.version, Sizeof("version")) = 0
    /\ strncmp(d1.date, d2.date, Sizeof("date")) = 0
    /\ strncmp(d1.time, d2.time, Sizeof("time")) = 0

(* ---- descriptors used as inputs --------------------------------------- *)
\* one character followed by terminators
Text1(n) == [i \in 1..n |-> IF i = 1 THEN 1 ELSE 0]
\* the same text, with a non-zero byte left after the terminator
Text1Dirty(n) == [i \in 1..n |-> IF i = 2 THEN 0 ELSE 1]
\* text that fills the whole capacity, no terminator
TextFull(n) == [i \in 1..n |-> 1]

Fw10 == [project_name |-> Text1(NameCap), version |-> Text1(NameCap),
         date |-> TextFull(DateCap), time |-> Text1(DateCap)]
Fw10Dirty == [Fw10 EXCEPT !.version = Text1Dirty(NameCap)]
Fw20 == [Fw10 EXCEPT !.version = TextFull(NameCap)]

DescPool == {Fw10, Fw10Dirty, Fw20}

\* pairs that differ in at most one field (every content of that field), and
\* every pair of the pool
CmpInputs ==
    (UNION {{<<[base EXCEPT ![f] = v1], [base EXCEPT ![f] = v2]>> :
                base \in DescPool, v1 \in FieldVals(Sizeof(f)),
                v2 \in FieldVals(Sizeof(f))} : f \in Fields})
    \cup (DescPool \X DescPool)

(* ---- values ------------------------------------------------------------ *)
NULL == "NULL"
\* a partition without a description, and a descriptor variable that was
\* never written: no field has any content
NoDesc == [project_name |-> <<>>, version |-> <<>>, date |-> <<>>, time |-> <<>>]
Uninit == NoDesc
Handle == "handle"
Parts == {"ota_0", "ota_1"}

ESP_OK == "ESP_OK"
ESP_FAIL == "ESP_FAIL"
ESP_ERR_HTTPS_OTA_IN_PROGRESS == "ESP_ERR_HTTPS_OTA_IN_PROGRESS"
ESP_ERR_OTA_VALIDATE_FAILED == "ESP_ERR_OTA_VALIDATE_FAILED"

VARIABLES
    flash,              \* partition table and OTA data the task reads
    ndebug,             \* build option: NDEBUG (assertions and error checks off)
    configured_part, running_part, update_part, last_invalid_app,
    https_ota_handle, err,
    new_app_info, running_app_info, invalid_app_info,
    pc,                 \* position of the task
    trace,              \* calls made so far, each with its argument or result
    desc1, desc2, match \* arguments and result of the last _versions_match

vars == <<flash, ndebug, configured_part, running_part, update_part,
          last_invalid_app, https_ota_handle, err, new_app_info,
          running_app_info, invalid_app_info, pc, trace, desc1, desc2, match>>

locals == <<configured_part, running_part, update_part, last_invalid_app,
            https_ota_handle, err, new_app_info, running_app_info,
            invalid_app_info>>

(* ---- helpers ----------------------------------------------------------- *)
\* _http_cleanup: abort the session, log
_http_cleanup(t, h) ==
    t \o << <<"esp_https_ota_abort", h>>, <<"ESP_LOGE", "upgrade failed">> >>

\* _delete_task: log, delete the calling task (does not return)
_delete_task(t) ==
    t \o << <<"ESP_LOGI", "Exiting task ..">>, <<"vTaskDelete", NULL>> >>

\* what a read of a descriptor variable can yield: its value, or, when it
\* was never written, whatever the stack held
ReadDesc(d) == IF d = Uninit THEN DescPool ELSE {d}

\* number of calls of fn in t
RECURSIVE Count(_, _)
Count(t, fn) ==
    IF t = <<>> THEN 0
    ELSE (IF Head(t)[1] = fn THEN 1 ELSE 0) + Count(Tail(t), fn)

\* number of times fn returned r in t
RECURSIVE CountRet(_, _, _)
CountRet(t, fn, r) ==
    IF t = <<>> THEN 0
    ELSE (IF Head(t) = <<fn, r>> THEN 1 ELSE 0) + CountRet(Tail(t), fn, r)

(* ---- initial state ----------------------------------------------------- *)
\* the image that runs is not the one marked invalid; the next update
\* partition may be missing, or (with a single OTA slot) be the running one
FlashStates ==
    {f \in [boot : Parts, running : Parts, next : Parts \cup {NULL},
            invalid : Parts \cup {NULL},
            description : [Parts -> DescPool \cup {NoDesc}]] :
        f.invalid # f.running}

Init ==
    /\ flash \in FlashStates
    /\ ndebug \in BOOLEAN
    /\ configured_part = NULL /\ running_part = NULL /\ update_part = NULL
    /\ last_invalid_app = NULL
    /\ https_ota_handle = NULL /\ err = ESP_OK
    /\ new_app_info = Uninit /\ running_app_info = Uninit
    /\ invalid_app_info = Uninit
    /\ pc = "start"
    /\ trace = <<>>
    /\ desc1 = Uninit /\ desc2 = Uninit /\ match = FALSE

(* ---- ota_update_task --------------------------------------------------- *)
\* the task giving up when the boot partition is not the running one
ReadPartitions_MismatchFatal ==
    /\ pc = "start"
    /\ configured_part' = flash.boot
    /\ running_part' = flash.running
    /\ update_part' = flash.next
    /\ IF flash.boot # flash.running
       THEN /\ trace' = _delete_task(Append(trace,
                  <<"ESP_LOGW", "Configured OTA boot partition">>))
            /\ pc' = "deleted"
       ELSE /\ trace' = Append(trace, <<"ESP_LOGI", "Running from part">>)
            /\ pc' = "begin"
    /\ UNCHANGED <<flash, ndebug, last_invalid_app, https_ota_handle, err,
                   new_app_info, running_app_info, invalid_app_info,
                   desc1, desc2, match>>

\* lines 78-89: read the partitions, warn on a boot/running mismatch
ReadPartitions ==
    /\ pc = "start"
    /\ configured_part' = flash.boot
    /\ running_part' = flash.running
    /\ update_part' = flash.next
    /\ trace' = trace
          \o (IF flash.boot # flash.running
              THEN << <<"ESP_LOGW", "Configured OTA boot partition">> >>
              ELSE <<>>)
          \o << <<"ESP_LOGI", "Running from part">> >>
    /\ pc' = "begin"
    /\ UNCHANGED <<flash, ndebug, last_invalid_app, https_ota_handle, err,
                   new_app_info, running_app_info, invalid_app_info,
                   desc1, desc2, match>>

\* begin without the test of the handle (lines 109-113 left out)
Begin_NoHandleCheck ==
    /\ pc = "begin"
    /\ \E r \in {<<ESP_OK, Handle>>, <<ESP_OK, NULL>>, <<ESP_FAIL, NULL>>} :
         LET t == Append(trace, <<"esp_https_ota_begin", r[1]>>) IN
         /\ err' = r[1]
         /\ https_ota_handle' = r[2]
         /\ IF r[1] # ESP_OK
            THEN /\ trace' = _delete_task(Append(t, <<"ESP_LOGE", "Begin failed">>))
                 /\ pc' = "deleted"
            ELSE /\ trace' = t
                 /\ pc' = "get_img_desc"
    /\ UNCHANGED <<flash, ndebug, configured_part, running_part, update_part,
                   last_invalid_app, new_app_info, running_app_info,
                   invalid_app_info, desc1, desc2, match>>

\* lines 103-113: esp_https_ota_begin and its two failure exits
Begin ==
    /\ pc = "begin"
    /\ \E r \in {<<ESP_OK, Handle>>, <<ESP_OK, NULL>>, <<ESP_FAIL, NULL>>} :
         LET t == Append(trace, <<"esp_https_ota_begin", r[1]>>) IN
         /\ err' = r[1]
         /\ https_ota_handle' = r[2]
         /\ IF r[1] # ESP_OK
            THEN /\ trace' = _delete_task(Append(t, <<"ESP_LOGE", "Begin failed">>))
                 /\ pc' = "deleted"
            ELSE IF r[2] = NULL
            THEN /\ trace' = _delete_task(Append(_http_cleanup(t, r[2]),
                                                 <<"ESP_LOGE", "No update found">>))
                 /\ pc' = "deleted"
            ELSE /\ trace' = t
                 /\ pc' = "get_img_desc"
    /\ UNCHANGED <<flash, ndebug, configured_part, running_part, update_part,
                   last_invalid_app, new_app_info, running_app_info,
                   invalid_app_info, desc1, desc2, match>>

\* lines 117-125: esp_https_ota_get_img_desc; on failure ESP_ERROR_CHECK
\* aborts the process unless NDEBUG is defined
GetImgDesc ==
    /\ pc = "get_img_desc"
    /\ \/ \E d \in DescPool :
            /\ err' = ESP_OK
            /\ new_app_info' = d
            /\ trace' = trace \o << <<"esp_https_ota_get_img_desc", ESP_OK>>,
                                    <<"ESP_LOGI", "Firmware on server">> >>
            /\ pc' = "running_description"
       \/ LET t == trace \o << <<"esp_https_ota_get_img_desc", ESP_FAIL>>,
                               <<"ESP_LOGE", "Can't get server version">> >> IN
            /\ err' = ESP_FAIL
            /\ UNCHANGED new_app_info
            /\ IF ~ndebug
               THEN /\ trace' = Append(t, <<"abort", "ESP_ERROR_CHECK">>)
                    /\ pc' = "aborted"
               ELSE /\ trace' = _delete_task(_http_cleanup(t, https_ota_handle))
                    /\ pc' = "deleted"
    /\ UNCHANGED <<flash, ndebug, configured_part, running_part, update_part,
                   last_invalid_app, https_ota_handle, running_app_info,
                   invalid_app_info, desc1, desc2, match>>

\* lines 127-130: description of the running partition
GetRunningDescription ==
    /\ pc = "running_description"
    /\ IF flash.description[running_part] # NoDesc
       THEN /\ running_app_info' = flash.description[running_part]
            /\ trace' = trace \o
                  << <<"esp_ota_get_partition_description", ESP_OK>>,
                     <<"ESP_LOGI", "Firmware running">> >>
       ELSE /\ UNCHANGED running_app_info
            /\ trace' = Append(trace,
                  <<"esp_ota_get_partition_description", ESP_FAIL>>)
    /\ pc' = "invalid_description"
    /\ UNCHANGED <<flash, ndebug, configured_part, running_part, update_part,
                   last_invalid_app, https_ota_handle, err, new_app_info,
                   invalid_app_info, desc1, desc2, match>>

\* lines 132-136: last invalid partition and its description
GetInvalidDescription ==
    /\ pc = "invalid_description"
    /\ last_invalid_app' = flash.invalid
    /\ IF flash.invalid # NULL /\ flash.description[flash.invalid] # NoDesc
       THEN /\ invalid_app_info' = flash.description[flash.invalid]
            /\ trace' = trace \o
                  << <<"esp_ota_get_partition_description", ESP_OK>>,
                     <<"ESP_LOGI", "Firmware marked invalid">> >>
       ELSE /\ UNCHANGED invalid_app_info
            /\ trace' = Append(trace,
                  <<"esp_ota_get_partition_description", ESP_FAIL>>)
    /\ pc' = "compare_invalid"
    /\ UNCHANGED <<flash, ndebug, configured_part, running_part, update_part,
                   https_ota_handle, err, new_app_info, running_app_info,
                   desc1, desc2, match>>

\* the task without the comparison against the invalid version
CompareInvalid_Skipped ==
    /\ pc = "compare_invalid"
    /\ pc' = "compare_running"
    /\ UNCHANGED <<flash, ndebug, locals, trace, desc1, desc2, match>>

\* lines 140-146: server version against the invalid version
CompareInvalid ==
    /\ pc = "compare_invalid"
    /\ IF last_invalid_app # NULL
       THEN \E a \in ReadDesc(invalid_app_info) :
              /\ desc1' = a
              /\ desc2' = new_app_info
              /\ match' = _versions_match(a, new_app_info)
              /\ IF match'
                 THEN /\ trace' = _delete_task(_http_cleanup(
                            trace \o << <<"_versions_match", "invalid">>,
                                        <<"ESP_LOGW", "Version on server is the same as invalid version">> >>,
                            https_ota_handle))
                      /\ pc' = "deleted"
                 ELSE /\ trace' = Append(trace, <<"_versions_match", "invalid">>)
                      /\ pc' = "compare_running"
       ELSE /\ pc' = "compare_running"
            /\ UNCHANGED <<trace, desc1, desc2, match>>
    /\ UNCHANGED <<flash, ndebug, locals>>

\* the comparison with the running version that logs a match and goes on
CompareRunning_Continues ==
    /\ pc = "compare_running"
    /\ \E b \in ReadDesc(running_app_info) :
         /\ desc1' = new_app_info
         /\ desc2' = b
         /\ match' = _versions_match(new_app_info, b)
         /\ trace' = trace \o << <<"_versions_match", "running">> >>
               \o (IF match' THEN << <<"ESP_LOGI", "No update available">> >>
                   ELSE <<>>)
         /\ pc' = "download"
    /\ UNCHANGED <<flash, ndebug, locals>>

\* lines 147-151: server version against the running version
CompareRunning ==
    /\ pc = "compare_running"
    /\ \E b \in ReadDesc(running_app_info) :
         /\ desc1' = new_app_info
         /\ desc2' = b
         /\ match' = _versions_match(new_app_info, b)
         /\ IF match'
            THEN /\ trace' = _delete_task(_http_cleanup(
                       trace \o << <<"_versions_match", "running">>,
                                   <<"ESP_LOGI", "No update available">> >>,
                       https_ota_handle))
                 /\ pc' = "deleted"
            ELSE /\ trace' = Append(trace, <<"_versions_match", "running">>)
                 /\ pc' = "download"
    /\ UNCHANGED <<flash, ndebug, locals>>

\* lines 155-157: assert(update_part != NULL), then update_part->label is
\* read.  With NDEBUG the assertion is compiled out and the read of a null
\* pointer either faults or goes unnoticed.
Download ==
    /\ pc = "download"
    /\ LET t == Append(trace, <<"ESP_LOGW", "Downloading OTA update ..">>) IN
       IF update_part # NULL
       THEN /\ trace' = Append(t, <<"ESP_LOGI", "Writing to part">>)
            /\ pc' = "perform"
       ELSE IF ~ndebug
       THEN /\ trace' = Append(t, <<"abort", "assert">>)
            /\ pc' = "aborted"
       ELSE \/ /\ trace' = t
               /\ pc' = "fault"
            \/ /\ trace' = Append(t, <<"ESP_LOGI", "Writing to part">>)
               /\ pc' = "perform"
    /\ UNCHANGED <<flash, ndebug, locals, desc1, desc2, match>>

\* the download loop trying once more after a first error
Perform_RetriesOnError ==
    /\ pc = "perform"
    /\ \E r \in {ESP_ERR_HTTPS_OTA_IN_PROGRESS, ESP_OK, ESP_FAIL} :
         /\ r = ESP_ERR_HTTPS_OTA_IN_PROGRESS =>
              CountRet(trace, "esp_https_ota_perform", r) < MaxSteps
         /\ err' = r
         /\ IF r = ESP_OK \/ (r = ESP_FAIL /\
                  CountRet(trace, "esp_https_ota_perform", ESP_FAIL) > 0)
            THEN /\ trace' = Append(trace, <<"esp_https_ota_perform", r>>)
                 /\ pc' = "check"
            ELSE /\ trace' = trace \o
                       << <<"esp_https_ota_perform", r>>,
                          <<"esp_https_ota_get_image_len_read", "">>,
                          <<"ESP_LOGI", "Bytes read">> >>
                 /\ pc' = "perform"
    /\ UNCHANGED <<flash, ndebug, configured_part, running_part, update_part,
                   last_invalid_app, https_ota_handle, new_app_info,
                   running_app_info, invalid_app_info, desc1, desc2, match>>

\* lines 159-165: one pass of the download loop
Perform ==
    /\ pc = "perform"
    /\ \E r \in {ESP_ERR_HTTPS_OTA_IN_PROGRESS, ESP_OK, ESP_FAIL} :
         /\ r = ESP_ERR_HTTPS_OTA_IN_PROGRESS =>
              CountRet(trace, "esp_https_ota_perform", r) < MaxSteps
         /\ err' = r
         /\ IF r # ESP_ERR_HTTPS_OTA_IN_PROGRESS
            THEN /\ trace' = Append(trace, <<"esp_https_ota_perform", r>>)
                 /\ pc' = "check"
            ELSE /\ trace' = trace \o
                       << <<"esp_https_ota_perform", r>>,
                          <<"esp_https_ota_get_image_len_read", "">>,
                          <<"ESP_LOGI", "Bytes read">> >>
                 /\ pc' = "perform"
    /\ UNCHANGED <<flash, ndebug, configured_part, running_part, update_part,
                   last_invalid_app, https_ota_handle, new_app_info,
                   running_app_info, invalid_app_info, desc1, desc2, match>>

\* the check with the completeness of the data asked for but not used
Check_IgnoresComplete ==
    /\ pc = "check"
    /\ IF err # ESP_OK
       THEN /\ trace' = _delete_task(_http_cleanup(
                  Append(trace, <<"ESP_LOGE", "Download error">>),
                  https_ota_handle))
            /\ pc' = "deleted"
       ELSE \E c \in BOOLEAN :
              /\ trace' = Append(trace,
                     <<"esp_https_ota_is_complete_data_received", c>>)
              /\ pc' = "finish"
    /\ UNCHANGED <<flash, ndebug, locals, desc1, desc2, match>>

\* the check with the result of the loop left out
Check_IgnoresErr ==
    /\ pc = "check"
    /\ \E c \in BOOLEAN :
         LET t == Append(trace,
                    <<"esp_https_ota_is_complete_data_received", c>>) IN
         IF c # TRUE
         THEN /\ trace' = _delete_task(_http_cleanup(
                    Append(t, <<"ESP_LOGE", "Download error">>),
                    https_ota_handle))
              /\ pc' = "deleted"
         ELSE /\ trace' = t
              /\ pc' = "finish"
    /\ UNCHANGED <<flash, ndebug, locals, desc1, desc2, match>>

\* lines 169-173: result of the loop and completeness of the data
Check ==
    /\ pc = "check"
    /\ IF err # ESP_OK
       THEN /\ trace' = _delete_task(_http_cleanup(
                  Append(trace, <<"ESP_LOGE", "Download error">>),
                  https_ota_handle))
            /\ pc' = "deleted"
       ELSE \E c \in BOOLEAN :
              LET t == Append(trace,
                         <<"esp_https_ota_is_complete_data_received", c>>) IN
              IF c # TRUE
              THEN /\ trace' = _delete_task(_http_cleanup(
                         Append(t, <<"ESP_LOGE", "Download error">>),
                         https_ota_handle))
                   /\ pc' = "deleted"
              ELSE /\ trace' = t
                   /\ pc' = "finish"
    /\ UNCHANGED <<flash, ndebug, locals, desc1, desc2, match>>

\* finish with a failed validation ending the task instead of restarting
Finish_ValidateFailedTerminates ==
    /\ pc = "finish"
    /\ \E r \in {ESP_OK, ESP_ERR_OTA_VALIDATE_FAILED, ESP_FAIL} :
         /\ err' = r
         /\ IF r = ESP_ERR_OTA_VALIDATE_FAILED
            THEN /\ trace' = _delete_task(
                       trace \o << <<"esp_https_ota_finish", r>>,
                                   <<"ESP_LOGE", "Downloaded image is corrupted">> >>)
                 /\ pc' = "deleted"
            ELSE /\ trace' = Append(trace, <<"esp_https_ota_finish", r>>)
                 /\ pc' = "restart"
    /\ UNCHANGED <<flash, ndebug, configured_part, running_part, update_part,
                   last_invalid_app, https_ota_handle, new_app_info,
                   running_app_info, invalid_app_info, desc1, desc2, match>>

\* lines 174-177: esp_https_ota_finish
Finish ==
    /\ pc = "finish"
    /\ \E r \in {ESP_OK, ESP_ERR_OTA_VALIDATE_FAILED, ESP_FAIL} :
         /\ err' = r
         /\ trace' = Append(trace, <<"esp_https_ota_finish", r>>)
               \o (IF r = ESP_ERR_OTA_VALIDATE_FAILED
                   THEN << <<"ESP_LOGE", "Downloaded image is corrupted">> >>
                   ELSE <<>>)
    /\ pc' = "restart"
    /\ UNCHANGED <<flash, ndebug, configured_part, running_part, update_part,
                   last_invalid_app, https_ota_handle, new_app_info,
                   running_app_info, invalid_app_info, desc1, desc2, match>>

\* lines 181-182: esp_restart (does not return)
Restart ==
    /\ pc = "restart"
    /\ trace' = trace \o << <<"ESP_LOGI", "Prepare to restart system!">>,
                            <<"esp_restart", "">> >>
    /\ pc' = "restarted"
    /\ UNCHANGED <<flash, ndebug, locals, desc1, desc2, match>>

Next ==
    \/ ReadPartitions
    \/ Begin
    \/ GetImgDesc
    \/ GetRunningDescription
    \/ GetInvalidDescription
    \/ CompareInvalid
    \/ CompareRunning
    \/ Download
    \/ Perform
    \/ Check
    \/ Finish
    \/ Restart

Spec == Init /\ [][Next]_vars

(* ---- two runs of the task, the second with the other boot setting ------ *)
\* what the first run leaves behind for the comparison with the second
Snapshot == [pc |-> pc, https_ota_handle |-> https_ota_handle,
             new_app_info |-> new_app_info]

\* README line 52: the application creates the task; here a second time,
\* after the first run has ended, on a device that differs from the first
\* only in whether the boot partition is the running partition
TaskCreate ==
    /\ pc \in {"restarted", "deleted", "aborted", "fault"}
    /\ \A i \in 1..Len(trace) : trace[i][1] # "xTaskCreate"
    /\ \E b \in Parts :
         /\ (b = flash.running) # (flash.boot = flash.running)
         /\ flash' = [flash EXCEPT !.boot = b]
    /\ trace' = Append(trace, <<"xTaskCreate", Snapshot>>)
    /\ configured_part' = NULL /\ running_part' = NULL /\ update_part' = NULL
    /\ last_invalid_app' = NULL
    /\ https_ota_handle' = NULL /\ err' = ESP_OK
    /\ new_app_info' = Uninit /\ running_app_info' = Uninit
    /\ invalid_app_info' = Uninit
    /\ pc' = "start"
    /\ desc1' = Uninit /\ desc2' = Uninit /\ match' = FALSE
    /\ UNCHANGED ndebug

BootWarning == <<"ESP_LOGW", "Configured OTA boot partition">>
NotBootWarning(e) == e # BootWarning
Created == \E i \in 1..Len(trace) : trace[i][1] = "xTaskCreate"
CreatedAt == CHOOSE i \in 1..Len(trace) : trace[i][1] = "xTaskCreate"
\* the calls of the first and of the second run, and both without the warning
Run1 == SubSeq(trace, 1, CreatedAt - 1)
Run2 == SubSeq(trace, CreatedAt + 1, Len(trace))
First == trace[CreatedAt][2]
Calls1 == SelectSeq(Run1, NotBootWarning)
Calls2 == SelectSeq(Run2, NotBootWarning)
Common == IF Len(Calls1) <= Len(Calls2) THEN Len(Calls1) ELSE Len(Calls2)
Diverge == {i \in 1..Common : Calls1[i] # Calls2[i]}
ResultCalls == {"esp_https_ota_begin", "esp_https_ota_get_img_desc",
                "esp_https_ota_perform",
                "esp_https_ota_is_complete_data_received",
                "esp_https_ota_finish"}
\* the second run was given another result than the first: the first entry
\* in which the runs differ is the result of the same call, or begin yielded
\* another handle, or get_img_desc another descriptor
OtherResults ==
    \/ /\ Diverge # {}
       /\ LET i == CHOOSE k \in Diverge : \A j \in Diverge : k <= j IN
            /\ Calls1[i][1] = Calls2[i][1]
            /\ Calls1[i][1] \in ResultCalls
    \/ /\ \E i \in 1..Len(Run2) : Run2[i][1] = "esp_https_ota_begin"
       /\ https_ota_handle # First.https_ota_handle
    \/ /\ \E i \in 1..Len(Run2) : Run2[i] = <<"esp_https_ota_get_img_desc", ESP_OK>>
       /\ new_app_info # First.new_app_info

\* devices on which every descriptor the task compares was loaded and the
\* update partition is not read through a null pointer: what the task does
\* is then decided by the partitions and the results of its calls
BootInit ==
    /\ Init
    /\ flash.running = "ota_0"
    /\ flash.description[flash.running] # NoDesc
    /\ flash.invalid # NULL => flash.description[flash.invalid] # NoDesc
    /\ ~(ndebug /\ flash.next = NULL)

\* the second run is followed as long as it is given the results of the
\* first
BootNext ==
    \/ Next /\ (Created => ~OtherResults')
    \/ TaskCreate

BootSpec == BootInit /\ [][BootNext]_vars

(* ---- the comparator on its own ---------------------------------------- *)
CmpInit ==
    /\ flash = [boot |-> "ota_0", running |-> "ota_0", next |-> "ota_1",
                invalid |-> NULL, description |-> [p \in Parts |-> NoDesc]]
    /\ ndebug = FALSE
    /\ configured_part = NULL /\ running_part = NULL /\ update_part = NULL
    /\ last_invalid_app = NULL
    /\ https_ota_handle = NULL /\ err = ESP_OK
    /\ new_app_info = Uninit /\ running_app_info = Uninit
    /\ invalid_app_info = Uninit
    /\ pc = "versions_match"
    /\ trace = <<>>
    /\ \E p \in CmpInputs : desc1 = p[1] /\ desc2 = p[2]
    /\ match = FALSE

\* lines 65-73: a call of _versions_match(desc1, desc2)
VersionsMatch ==
    /\ pc = "versions_match"
    /\ match' = _versions_match(desc1, desc2)
    /\ pc' = "versions_match_return"
    /\ UNCHANGED <<flash, ndebug, locals, trace, desc1, desc2>>

CmpNext == VersionsMatch

CmpSpec == CmpInit /\ [][CmpNext]_vars

(* ---- vocabulary of the properties -------------------------------------- *)
Called(fn) == \E i \in 1..Len(trace) : trace[i][1] = fn
Returned(fn, r) == \E i \in 1..Len(trace) : trace[i] = <<fn, r>>
Logged(msg) ==
    \E i \in 1..Len(trace) :
        trace[i][1] \in {"ESP_LOGE", "ESP_LOGW", "ESP_LOGI"} /\ trace[i][2] = msg
\* some call of f comes before some call of g
Before(f, g) ==
    \E i, j \in 1..Len(trace) : i < j /\ trace[i][1] = f /\ trace[j][1] = g

Terminal == pc \in {"restarted", "deleted", "aborted", "fault"}
Fetched == Returned("esp_https_ota_get_img_desc", ESP_OK)

\* the descriptions flash holds for the running and the last invalid partition
RunningDesc == flash.description[flash.running]
HasInvalidDesc ==
    flash.invalid # NULL /\ flash.description[flash.invalid] # NoDesc
InvalidDesc == flash.description[flash.invalid]

\* the text of a field: its bytes before the first terminator
CStr(s) ==
    LET stops == {i \in 1..Len(s) : s[i] = 0}
        end == IF stops = {} THEN Len(s)
               ELSE (CHOOSE i \in stops : \A j \in stops : i <= j) - 1
    IN SubSeq(s, 1, end)
SameText(a, b) == \A f \in Fields : CStr(a[f]) = CStr(b[f])
\* d is not the description of a partition: the partition has none, or some
\* field holds another text
Differs(d, partDesc) == partDesc = NoDesc \/ ~SameText(d, partDesc)

(* ---- C1 ----------------------------------------------------------------- *)
\* C1: when the next-update partition is absent or is the running
\* partition, esp_https_ota_begin is never called and no other transport
\* call is made.
C1_NoSessionWithoutUpdatePartition ==
    (flash.next = NULL \/ flash.next = flash.running) =>
        /\ ~Called("esp_https_ota_begin")
        /\ ~Called("esp_https_ota_perform")

(* ---- C2 ----------------------------------------------------------------- *)
\* C2: a run in which esp_https_ota_begin returned ESP_OK and that ended
\* without a restart called esp_https_ota_abort and, after it, vTaskDelete.
C2_AbortBeforeTermination ==
    (Terminal /\ pc # "restarted"
        /\ Returned("esp_https_ota_begin", ESP_OK)) =>
        Before("esp_https_ota_abort", "vTaskDelete")

(* ---- C3 ----------------------------------------------------------------- *)
\* C3: when the server's descriptor is the running partition's descriptor
\* and differs in text from the last invalid partition's descriptor (or
\* there is none), the run ends with
\* "No update available": no perform, no finish, session aborted, task
\* deleted, no restart.
C3_UpToDateSkips ==
    (/\ Fetched
     /\ flash.next # NULL /\ flash.next # flash.running
     /\ RunningDesc # NoDesc
     /\ new_app_info = RunningDesc
     /\ flash.invalid # NULL => Differs(new_app_info, InvalidDesc)) =>
        /\ ~Called("esp_https_ota_perform")
        /\ ~Called("esp_https_ota_finish")
        /\ ~Called("esp_restart")
        /\ Terminal =>
             /\ pc = "deleted"
             /\ Logged("No update available")
             /\ Before("esp_https_ota_abort", "vTaskDelete")

(* ---- C4 ----------------------------------------------------------------- *)
\* C4: when a last invalid partition has a descriptor and the server's
\* descriptor equals it, the run ends with "same as invalid version": no
\* perform, session aborted, task deleted, no restart; the comparison with
\* the running version is not reached, so the result is the same when the
\* server's descriptor also equals the running one.
C4_InvalidVersionRejected ==
    (Fetched /\ HasInvalidDesc /\ InvalidDesc = new_app_info) =>
        /\ ~Called("esp_https_ota_perform")
        /\ ~Called("esp_https_ota_finish")
        /\ ~Called("esp_restart")
        /\ ~Returned("_versions_match", "running")
        /\ ~Logged("No update available")
        /\ Terminal =>
             /\ pc = "deleted"
             /\ Logged("Version on server is the same as invalid version")
             /\ Before("esp_https_ota_abort", "vTaskDelete")

C4_Witness ==
    /\ pc = "deleted"
    /\ Fetched /\ HasInvalidDesc
    /\ InvalidDesc = new_app_info
    /\ RunningDesc = new_app_info
    /\ Logged("Version on server is the same as invalid version")

(* ---- C5 ----------------------------------------------------------------- *)
\* C5: when the server's descriptor differs in text from the running and
\* from the last invalid descriptor (or the partition has none), the update
\* partition exists, no perform reports an error, the data is
\* complete and finish returns ESP_OK, the run ends in exactly one
\* esp_restart, made after finish, having written to the update partition
\* and without esp_https_ota_abort or vTaskDelete.
C5_NewVersionInstalled ==
    (/\ Terminal
     /\ Fetched
     /\ flash.next # NULL /\ flash.next # flash.running
     /\ Differs(new_app_info, RunningDesc)
     /\ flash.invalid # NULL => Differs(new_app_info, InvalidDesc)
     /\ ~Returned("esp_https_ota_perform", ESP_FAIL)
     /\ ~Returned("esp_https_ota_is_complete_data_received", FALSE)
     /\ ~Returned("esp_https_ota_finish", ESP_ERR_OTA_VALIDATE_FAILED)
     /\ ~Returned("esp_https_ota_finish", ESP_FAIL)) =>
        /\ pc = "restarted"
        /\ Count(trace, "esp_restart") = 1
        /\ Logged("Writing to part")
        /\ Returned("esp_https_ota_finish", ESP_OK)
        /\ Before("esp_https_ota_finish", "esp_restart")
        /\ ~Called("esp_https_ota_abort")
        /\ ~Called("vTaskDelete")

(* ---- C6 ----------------------------------------------------------------- *)
\* C6: once a perform has returned an error, it was the last perform, finish
\* and restart are never called, and the run ends with "Download error",
\* the session aborted and then the task deleted.
C6_StepErrorEndsRun ==
    Returned("esp_https_ota_perform", ESP_FAIL) =>
        /\ pc \in {"check", "deleted"}
        /\ Count(trace, "esp_https_ota_perform") =
             CountRet(trace, "esp_https_ota_perform",
                      ESP_ERR_HTTPS_OTA_IN_PROGRESS) + 1
        /\ ~Called("esp_https_ota_finish")
        /\ ~Called("esp_restart")
        /\ pc = "deleted" =>
             /\ Logged("Download error")
             /\ Count(trace, "esp_https_ota_abort") = 1
             /\ Before("esp_https_ota_abort", "vTaskDelete")

C6_Witness ==
    /\ pc = "deleted"
    /\ Returned("esp_https_ota_perform", ESP_FAIL)
    /\ Returned("esp_https_ota_perform", ESP_ERR_HTTPS_OTA_IN_PROGRESS)
    /\ Logged("Download error")

(* ---- C7 ----------------------------------------------------------------- *)
\* C7: after finish has returned ESP_ERR_OTA_VALIDATE_FAILED the condition
\* is logged, the task is at or past the restart, and it is never deleted.
C7_ValidateFailedRestarts ==
    Returned("esp_https_ota_finish", ESP_ERR_OTA_VALIDATE_FAILED) =>
        /\ Logged("Downloaded image is corrupted")
        /\ pc \in {"restart", "restarted"}
        /\ pc = "restarted" => Count(trace, "esp_restart") = 1
        /\ ~Called("vTaskDelete")
        /\ ~Called("esp_https_ota_abort")

C7_Witness ==
    /\ pc = "restarted"
    /\ Returned("esp_https_ota_finish", ESP_ERR_OTA_VALIDATE_FAILED)
    /\ Called("esp_restart")

C9_Reflexive ==
    (pc = "versions_match_return" /\ desc1 = desc2) => match

C9_Witness ==
    /\ pc = "versions_match_return"
    /\ desc1 = desc2
    /\ \E f \in Fields : \A i \in 1..Sizeof(f) : desc1[f][i] # 0
    /\ desc1.date # desc1.time
    /\ match

(* ---- C10 ---------------------------------------------------------------- *)
\* C10: a run ends by esp_restart or by vTaskDelete, never by both and never
\* by abort() or a fault.
C10_RestartOrSelfTermination ==
    /\ pc \notin {"aborted", "fault"}
    /\ ~Called("abort")
    /\ ~(Called("esp_restart") /\ Called("vTaskDelete"))
    /\ Terminal => (Called("esp_restart") \/ Called("vTaskDelete"))

(* ---- C11 ---------------------------------------------------------------- *)
\* C11: after esp_https_ota_finish has returned an error other than
\* ESP_ERR_OTA_VALIDATE_FAILED the task is deleted and esp_restart is never
\* called.
C11_FinishErrorTerminates ==
    Returned("esp_https_ota_finish", ESP_FAIL) =>
        /\ ~Called("esp_restart")
        /\ Terminal => pc = "deleted"

(* ---- C12 ---------------------------------------------------------------- *)
\* C12: finish is called only after the last perform returned ESP_OK and the
\* data was reported complete; when the data is reported incomplete the run
\* ends with "Download error", the session aborted and then the task
\* deleted, without finish and without restart.
C12_FinishOnlyAfterCompleteDownload ==
    /\ Called("esp_https_ota_finish") =>
         /\ Returned("esp_https_ota_perform", ESP_OK)
         /\ ~Returned("esp_https_ota_perform", ESP_FAIL)
         /\ Returned("esp_https_ota_is_complete_data_received", TRUE)
         /\ ~Returned("esp_https_ota_is_complete_data_received", FALSE)
         /\ Before("esp_https_ota_is_complete_data_received",
                   "esp_https_ota_finish")
    /\ Returned("esp_https_ota_is_complete_data_received", FALSE) =>
         /\ pc = "deleted"
         /\ Logged("Download error")
         /\ Before("esp_https_ota_abort", "vTaskDelete")
         /\ ~Called("esp_https_ota_finish")
         /\ ~Called("esp_restart")

C12_Witness ==
    /\ pc = "deleted"
    /\ Returned("esp_https_ota_perform", ESP_OK)
    /\ Returned("esp_https_ota_is_complete_data_received", FALSE)
    /\ ~Called("esp_https_ota_finish")

(* ---- C13 ---------------------------------------------------------------- *)
\* C13: when esp_https_ota_begin returned an error, or ESP_OK without a
\* handle, the task is deleted, there is no restart, and get_img_desc,
\* perform and finish are never called.
C13_BeginFailureTerminates ==
    (\/ Returned("esp_https_ota_begin", ESP_FAIL)
     \/ (Returned("esp_https_ota_begin", ESP_OK) /\ https_ota_handle = NULL)) =>
        /\ pc = "deleted"
        /\ Called("vTaskDelete")
        /\ ~Called("esp_restart")
        /\ ~Called("esp_https_ota_get_img_desc")
        /\ ~Called("esp_https_ota_perform")
        /\ ~Called("esp_https_ota_finish")

C13_Witness ==
    /\ pc = "deleted"
    /\ Returned("esp_https_ota_begin", ESP_OK)
    /\ https_ota_handle = NULL
    /\ Logged("No update found")

(* ---- C14 ---------------------------------------------------------------- *)
\* C14: when esp_https_ota_get_img_desc failed, the run ends with the
\* session aborted and then the task deleted; no comparison, perform,
\* finish or restart is made.
C14_FetchFailureAbortsSession ==
    Returned("esp_https_ota_get_img_desc", ESP_FAIL) =>
        /\ ~Called("_versions_match")
        /\ ~Called("esp_https_ota_perform")
        /\ ~Called("esp_https_ota_finish")
        /\ ~Called("esp_restart")
        /\ Terminal =>
             /\ pc = "deleted"
             /\ Before("esp_https_ota_abort", "vTaskDelete")

(* ---- C15 ---------------------------------------------------------------- *)
\* C15: _versions_match is called with the running descriptor only when the
\* running partition's description was loaded, and with the invalid
\* descriptor only when a last invalid partition exists and its description
\* was loaded.
C15_ComparatorOnlyOnLoadedDescriptors ==
    /\ Returned("_versions_match", "running") => RunningDesc # NoDesc
    /\ Returned("_versions_match", "invalid") => HasInvalidDesc

(* ---- C16 ---------------------------------------------------------------- *)
\* C16: begin is called at most once; abort is called at most once and never
\* after finish; a run in which begin yielded a handle has, when it has
\* ended, called exactly one of abort and finish, once, before vTaskDelete
\* or esp_restart.
C16_SessionReleasedOnce ==
    /\ Count(trace, "esp_https_ota_begin") <= 1
    /\ Count(trace, "esp_https_ota_abort") <= 1
    /\ ~Before("esp_https_ota_finish", "esp_https_ota_abort")
    /\ (/\ Terminal
        /\ Returned("esp_https_ota_begin", ESP_OK)
        /\ https_ota_handle # NULL) =>
           /\ Count(trace, "esp_https_ota_abort")
                + Count(trace, "esp_https_ota_finish") = 1
           /\ \/ Before("esp_https_ota_abort", "vTaskDelete")
              \/ Before("esp_https_ota_finish", "esp_restart")

(* ---- C17 ---------------------------------------------------------------- *)
\* C17: begin, get_img_desc and finish are each called at most once; a
\* perform that returned IN_PROGRESS is followed by another perform (or the
\* task is about to make it), and a perform that returned anything else is
\* the last one.
C17_NoRetry ==
    /\ Count(trace, "esp_https_ota_begin") <= 1
    /\ Count(trace, "esp_https_ota_get_img_desc") <= 1
    /\ Count(trace, "esp_https_ota_finish") <= 1
    /\ \A i \in 1..Len(trace) :
         trace[i][1] = "esp_https_ota_perform" =>
           LET again == \/ pc = "perform"
                        \/ \E j \in (i + 1)..Len(trace) :
                              trace[j][1] = "esp_https_ota_perform"
           IN (trace[i][2] = ESP_ERR_HTTPS_OTA_IN_PROGRESS) <=> again

C17_Witness ==
    /\ pc = "deleted"
    /\ CountRet(trace, "esp_https_ota_perform",
                ESP_ERR_HTTPS_OTA_IN_PROGRESS) >= 2
    /\ Returned("esp_https_ota_perform", ESP_FAIL)
    /\ Count(trace, "esp_https_ota_perform") >= 3

(* ---- C18 ---------------------------------------------------------------- *)
\* C18: in each run the warning is logged exactly when the boot partition is
\* not the running one; a second run on a device that differs only in that,
\* and is given the same results, makes the calls of the first run in the
\* same order and ends where the first run ended.
C18_BootMismatchOnlyLogs ==
    (Created /\ pc # "start") =>
        /\ (\E i \in 1..Len(Run2) : Run2[i] = BootWarning)
              <=> (flash.boot # flash.running)
        /\ (\E i \in 1..Len(Run1) : Run1[i] = BootWarning)
              <=> (flash.boot = flash.running)
        /\ ~OtherResults =>
             /\ Diverge = {}
             /\ Len(Calls2) <= Len(Calls1)
             /\ Terminal => (Len(Calls2) = Len(Calls1) /\ pc = First.pc)

C18_Witness ==
    /\ Created
    /\ pc = "restarted"
    /\ ~OtherResults
    /\ Calls1 = Calls2
    /\ Run1 # Run2
    /\ Returned("esp_https_ota_perform", ESP_ERR_HTTPS_OTA_IN_PROGRESS)

(* ---- C19 ---------------------------------------------------------------- *)
\* C19: esp_restart is called only in a run that fetched the server's
\* descriptor, found it to match neither the invalid nor the running
\* version, ended the download loop with ESP_OK, had the data reported
\* complete and called finish before the restart.
C19_RestartOnlyAfterDownload ==
    Called("esp_restart") =>
        /\ Fetched
        /\ Returned("_versions_match", "running")
        /\ last_invalid_app # NULL => Returned("_versions_match", "invalid")
        /\ ~Logged("Version on server is the same as invalid version")
        /\ ~Logged("No update available")
        /\ RunningDesc # NoDesc => ~SameText(new_app_info, RunningDesc)
        /\ HasInvalidDesc => ~SameText(new_app_info, InvalidDesc)
        /\ Returned("esp_https_ota_perform", ESP_OK)
        /\ ~Returned("esp_https_ota_perform", ESP_FAIL)
        /\ Returned("esp_https_ota_is_complete_data_received", TRUE)
        /\ ~Returned("esp_https_ota_is_complete_data_received", FALSE)
        /\ Before("esp_https_ota_perform", "esp_https_ota_finish")
        /\ Before("esp_https_ota_finish", "esp_restart")

C19_Witness ==
    /\ pc = "restarted"
    /\ Called("esp_restart")
    /\ Returned("esp_https_ota_finish", ESP_OK)
    /\ Returned("esp_https_ota_perform", ESP_ERR_HTTPS_OTA_IN_PROGRESS)

(* ---- C20 ---------------------------------------------------------------- *)
\* C20: a run that can take no further step has ended by esp_restart or by
\* vTaskDelete.
C20_EndsInRestartOrDelete ==
    (~ENABLED Next) =>
        /\ pc \in {"restarted", "deleted"}
        /\ Called("esp_restart") \/ Called("vTaskDelete")

TypeOK == pc \in {"start", "begin", "get_img_desc", "running_description",
                  "invalid_description", "compare_invalid", "compare_running",
                  "download", "perform", "check", "finish", "restart",
                  "restarted", "deleted", "aborted", "fault",
                  "versions_match", "versions_match_return"}
====
